---- MODULE Spec2Model ----
(***************************************************************************)
(* HelioSyn scheduling core: the Job state machine, the Smart and Baseline *)
(* schedulers (src/src/lib/smartScheduler.ts) and the time-stepped loop of *)
(* runSmartSimulation (src/src/lib/simulation.ts).                         *)
(*                                                                         *)
(* Units.  The source computes in IEEE doubles; the model computes in      *)
(* integers:                                                               *)
(*   - every hour value (currentHour, startHour, deadline) is held in      *)
(*     MINUTES, so hour h of the source is 60 * h here and the loop's      *)
(*     increment dtHours = TIME_STEP_MINUTES / 60 is TIME_STEP_MINUTES;    *)
(*   - job power and solar availability are whole kW;                      *)
(*   - temperatures are milli-degrees C and cooling power is W, with       *)
(*     floor division where the source divides;                            *)
(*   - energies are in W * step (1 kWh = 1000 * 60 / TIME_STEP_MINUTES).   *)
(* An optional value (number | null) is a sequence: << >> is null and      *)
(* <<v>> is v.                                                             *)
(***************************************************************************)
EXTENDS Integers, Sequences, FiniteSets, TLC

\* ---------------------------------------------------------------------
\* simulationConfig.ts
\* ---------------------------------------------------------------------
SIMULATION_START_HOUR == 0
SIMULATION_END_HOUR == 24
TIME_STEP_MINUTES == 10
MAX_DATA_HUB_POWER == 10
BASELINE_BACKGROUND_LOAD == 3
IDEAL_TEMP == 25
THERMAL_THRESHOLD == 32
TEMP_THRESHOLD == 25
COOLING_COP == 3
DEADLINE_PENALTY_KWH == 2
\* fractional coefficients as <<numerator, denominator>>
HEAT_ACCUMULATION == <<15, 100>>
THERMAL_DISSIPATION == <<5, 100>>
COOLING_FACTOR == <<5, 10>>
COOLING_EFFICIENCY == <<6, 10>>
LOAD_COOLING_FACTOR == <<5, 100>>
GRID_CARBON_INTENSITY == <<7, 10>>

\* ---------------------------------------------------------------------
\* bounds of the model
\* ---------------------------------------------------------------------
\* longest appliance list given to a run
MaxJobs == 2
\* most runStep calls made on the job of the Job harness
MaxRunCalls == 4

NULL == << >>
Some(v) == <<v>>

\* const logs = { time: [], solar: [], grid: [], temp: [], cooling: [], cost: [] }
EmptyLogs ==
    [time |-> << >>, solar |-> << >>, grid |-> << >>, temp |-> << >>,
     cooling |-> << >>, cost |-> << >>]

Min(a, b) == IF a <= b THEN a ELSE b
Max(a, b) == IF a >= b THEN a ELSE b
Abs(a) == IF a >= 0 THEN a ELSE 0 - a

VARIABLES
    appliances,        \* the appliance list handed to runSmartSimulation
    useSmart,          \* the policy flag
    solarData,         \* files.solar : values by index position
    weatherData,       \* files.weather : values by index position
    jobs,              \* scheduler.jobs, in insertion order
    currentlyRunning,  \* the engine's Set<Job>, as indices into jobs
    currentTemp,       \* facility temperature, milli-degrees C
    currentHour,       \* simulated hour, in minutes
    solarEnergy,
    gridEnergy,
    coolingEnergy,
    slaViolations,
    carbon,            \* W * step * kg/kWh, times the denominator of the intensity
    accumulatedCost,   \* cumulative grid cost, W * step * (price per kWh)
    logs,              \* the six per-step series
    returned,          \* the metrics records returned so far, oldest first
    pc,                \* "loop" | "done" for a run, or the harness in control
    advanced,          \* harness: minutes passed to runStep so far
    runCalls,          \* harness: number of runStep calls so far
    lastCall           \* harness: the last call made and what it returned

vars == <<appliances, useSmart, solarData, weatherData, jobs, currentlyRunning,
          currentTemp, currentHour, solarEnergy, gridEnergy, coolingEnergy,
          carbon, slaViolations, accumulatedCost, logs, returned, pc,
          advanced, runCalls, lastCall>>

simVars == <<appliances, useSmart, solarData, weatherData, currentlyRunning,
             currentTemp, currentHour, solarEnergy, gridEnergy, coolingEnergy,
             carbon, accumulatedCost, logs, returned>>

harnessVars == <<advanced, runCalls, lastCall>>

\* ---------------------------------------------------------------------
\* class Job
\* ---------------------------------------------------------------------
\* String.prototype.toLowerCase over the priority strings used as inputs
toLowerCase(p) ==
    CASE p = "Critical" -> "critical"
      [] p = "High" -> "high"
      [] p = "Medium" -> "medium"
      [] p = "Low" -> "low"
      [] p = "LOW" -> "low"
      [] OTHER -> p

normalizePriority(p) ==
    LET lower == toLowerCase(p) IN
    IF lower \in {"high", "medium", "low", "critical"} THEN lower ELSE "medium"

\* constructor; the random id is left out, a job is known by its position
NewJob(name, powerKw, durationMin, priority, deadlineHour, flexible) ==
    [name |-> name,
     powerKw |-> powerKw,
     duration |-> durationMin,
     remaining |-> durationMin,
     priority |-> normalizePriority(priority),
     deadline |-> deadlineHour,
     status |-> "WAITING",
     penalized |-> FALSE,
     startHour |-> NULL,
     flexible |-> flexible]

\* JobStart that leaves startHour as it is
JobStartNoHour(j, hour) ==
    IF j.status = "WAITING" THEN [j EXCEPT !.status = "RUNNING"] ELSE j

JobStartUnguarded(j, hour) ==
    [j EXCEPT !.status = "RUNNING",
              !.startHour = IF @ = NULL THEN Some(hour) ELSE @]

JobStart(j, hour) ==
    IF j.status = "WAITING"
    THEN [j EXCEPT !.status = "RUNNING",
                   !.startHour = IF @ = NULL THEN Some(hour) ELSE @]
    ELSE j

JobRunStepNoClamp(j, dtMin, hour) ==
    IF j.status = "DONE" THEN j
    ELSE LET s == IF j.status = "WAITING" THEN JobStart(j, hour) ELSE j
             r == s.remaining - dtMin
         IN IF r <= 0 THEN [s EXCEPT !.remaining = r, !.status = "DONE"]
                      ELSE [s EXCEPT !.remaining = r]

JobRunStepStrict(j, dtMin, hour) ==
    IF j.status = "DONE" THEN j
    ELSE LET s == IF j.status = "WAITING" THEN JobStart(j, hour) ELSE j
             r == s.remaining - dtMin
         IN IF r < 0 THEN [s EXCEPT !.remaining = 0, !.status = "DONE"]
                     ELSE [s EXCEPT !.remaining = r]

JobRunStep(j, dtMin, hour) ==
    IF j.status = "DONE" THEN j
    ELSE LET s == IF j.status = "WAITING" THEN JobStart(j, hour) ELSE j
             r == s.remaining - dtMin
         IN IF r <= 0 THEN [s EXCEPT !.remaining = 0, !.status = "DONE"]
                      ELSE [s EXCEPT !.remaining = r]

\* the value deadlineMissed returns
DeadlineMissedResult(j, hour) ==
    /\ j.deadline # NULL
    /\ hour > j.deadline[1]
    /\ j.status # "DONE"
    /\ ~j.penalized

JobDeadlineMissedNoFlag(j, hour) == j

\* the job after a deadlineMissed call
JobDeadlineMissed(j, hour) ==
    IF DeadlineMissedResult(j, hour) THEN [j EXCEPT !.penalized = TRUE] ELSE j

\* The engine's currentHour is a double that accumulates 10 / 60.0 from 0.
\* At the whole hours 1, 3, 4 and 10..19 the accumulated double lies a few
\* ulps below the hour this model holds for it (17.99999999999999 for 18).
DoubleBelowHour(hour) ==
    hour % 60 = 0 /\ (hour \div 60) \in ({1, 3, 4} \cup (10..19))

\* urgencyScore as an exact fraction <<numerator, denominator>>, denominator > 0:
\* (remaining / 60) / (deadline - currentHour), hours held in minutes.
\* When the hour is the deadline's and its double lies below it,
\* hoursUntilDeadline is about 1e-14 and not <= 0: the score is remaining
\* times about 1.5e12, for which remaining times 1000 stands here (the two
\* compare alike with every other score of a job with whole minutes left).
urgencyScore(j, hour) ==
    IF j.deadline = NULL THEN <<0, 1>>
    ELSE IF j.deadline[1] = hour /\ DoubleBelowHour(hour)
    THEN <<1000 * j.remaining, 1>>
    ELSE IF j.deadline[1] - hour <= 0 THEN <<999, 1>>
    ELSE <<j.remaining, j.deadline[1] - hour>>

\* ---------------------------------------------------------------------
\* Job harness: one Job, called in any order with any hours
\* ---------------------------------------------------------------------
JobDurations == {0, 10, 25, 30}
JobDeadlines == {NULL, Some(60), Some(120)}
JobHours == {0, 60, 120, 180}
JobSteps == {0, 5, TIME_STEP_MINUTES}

InitJob ==
    /\ pc = "job"
    /\ \E d \in JobDurations, dl \in JobDeadlines :
          jobs = << NewJob("job", 1, d, "High", dl, TRUE) >>
    /\ slaViolations = 0
    /\ advanced = 0
    /\ runCalls = 0
    /\ lastCall = [op |-> "new", hour |-> 0, result |-> FALSE]
    /\ appliances = << >>
    /\ useSmart = TRUE
    /\ solarData = << >>
    /\ weatherData = << >>
    /\ currentlyRunning = {}
    /\ currentTemp = IDEAL_TEMP * 1000
    /\ currentHour = SIMULATION_START_HOUR * 60
    /\ solarEnergy = 0
    /\ gridEnergy = 0
    /\ coolingEnergy = 0
    /\ carbon = 0
    /\ accumulatedCost = 0
    /\ logs = EmptyLogs
    /\ returned = << >>

CallStart ==
    /\ pc = "job"
    /\ \E h \in JobHours :
          /\ jobs' = << JobStart(jobs[1], h) >>
          /\ lastCall' = [op |-> "start", hour |-> h, result |-> FALSE]
    /\ UNCHANGED <<simVars, slaViolations, pc, advanced, runCalls>>

CallRunStep ==
    /\ pc = "job"
    /\ runCalls < MaxRunCalls
    /\ \E dt \in JobSteps, h \in JobHours :
          /\ jobs' = << JobRunStep(jobs[1], dt, h) >>
          /\ advanced' = advanced + dt
          /\ lastCall' = [op |-> "runStep", hour |-> h, result |-> FALSE]
    /\ runCalls' = runCalls + 1
    /\ UNCHANGED <<simVars, slaViolations, pc>>

\* a caller that counts the true results, as the engine's deadline pass does
CallDeadlineMissed ==
    /\ pc = "job"
    /\ \E h \in JobHours :
          /\ jobs' = << JobDeadlineMissed(jobs[1], h) >>
          /\ slaViolations' = IF DeadlineMissedResult(jobs[1], h)
                              THEN slaViolations + 1 ELSE slaViolations
          /\ lastCall' = [op |-> "deadlineMissed", hour |-> h,
                          result |-> DeadlineMissedResult(jobs[1], h)]
    /\ UNCHANGED <<simVars, pc, advanced, runCalls>>

NextJob == CallStart \/ CallRunStep \/ CallDeadlineMissed

SpecJob == InitJob /\ [][NextJob]_vars

\* ---------------------------------------------------------------------
\* SmartScheduler
\* ---------------------------------------------------------------------
\* jobs.filter(j => j.status === 'WAITING'): positions, in insertion order
RECURSIVE WaitingFrom(_, _)
WaitingFrom(js, i) ==
    IF i > Len(js) THEN << >>
    ELSE IF js[i].status = "WAITING" THEN <<i>> \o WaitingFrom(js, i + 1)
    ELSE WaitingFrom(js, i + 1)

\* WaitingJobs without the filter: every position
EveryJob(js) == [i \in 1..Len(js) |-> i]

WaitingJobs(js) == WaitingFrom(js, 1)

pMap(p) ==
    CASE p = "critical" -> 0 - 1
      [] p = "high" -> 0
      [] p = "medium" -> 1
      [] p = "low" -> 2

\* Compare with the more urgent job put last
CompareUrgencyAscending(a, b, hour) ==
    IF pMap(a.priority) # pMap(b.priority)
    THEN pMap(a.priority) - pMap(b.priority)
    ELSE LET uA == urgencyScore(a, hour)
             uB == urgencyScore(b, hour)
             cross == uA[1] * uB[2] - uB[1] * uA[2]
         IN IF 10 * Abs(cross) > uA[2] * uB[2]
            THEN cross
            ELSE a.powerKw - b.powerKw

\* Compare without its first criterion, the priority class
CompareIgnoresClass(a, b, hour) ==
    LET uA == urgencyScore(a, hour)
        uB == urgencyScore(b, hour)
        cross == uA[1] * uB[2] - uB[1] * uA[2]
    IN IF 10 * Abs(cross) > uA[2] * uB[2]
       THEN 0 - cross
       ELSE a.powerKw - b.powerKw

\* the comparator handed to Array.prototype.sort: negative when a goes first
Compare(a, b, hour) ==
    IF pMap(a.priority) # pMap(b.priority)
    THEN pMap(a.priority) - pMap(b.priority)
    ELSE LET uA == urgencyScore(a, hour)
             uB == urgencyScore(b, hour)
             \* urgencyA - urgencyB = cross / (uA[2] * uB[2])
             cross == uA[1] * uB[2] - uB[1] * uA[2]
         IN IF 10 * Abs(cross) > uA[2] * uB[2]
            THEN 0 - cross
            ELSE a.powerKw - b.powerKw

\* the comparator is a consistent one on the jobs at the positions in S
\* (ECMAScript: it defines a strict weak ordering on them)
ConsistentAmong(js, S, hour) ==
    LET lt(x, y) == Compare(js[x], js[y], hour) < 0
        eq(x, y) == Compare(js[x], js[y], hour) = 0
    IN /\ \A x, y \in S : lt(x, y) <=> Compare(js[y], js[x], hour) > 0
       /\ \A x, y, z \in S : lt(x, y) /\ lt(y, z) => lt(x, z)
       /\ \A x, y, z \in S : eq(x, y) /\ eq(y, z) => eq(x, z)

ConsistentOn(js, w, hour) ==
    ConsistentAmong(js, {w[k] : k \in 1..Len(w)}, hour)

\* the orders Array.prototype.sort can leave the positions w in.  With a
\* consistent comparator it is the stable sorted order.  With an inconsistent
\* one the order is the implementation's choice; the stable merge and
\* insertion sorts of the engines still put x before y whenever x compares
\* before y and the comparator is consistent between the groups of the two,
\* as it is between two priority classes, and they sort a class on which
\* the comparator is consistent.  Within a class on which it is not, any
\* order is taken to be possible.
SortOutcomes(js, w, hour) ==
    LET n == Len(w)
        S == {w[k] : k \in 1..n}
        perms == {p \in [1..n -> S] : \A i, k \in 1..n : i # k => p[i] # p[k]}
        class(x) == {y \in S : pMap(js[y].priority) = pMap(js[x].priority)}
        inOrder(p, i, k) ==
            \/ Compare(js[p[i]], js[p[k]], hour) < 0
            \/ /\ Compare(js[p[i]], js[p[k]], hour) = 0
               /\ p[i] < p[k]
        sorted(p) == \A i, k \in 1..n : i < k => inOrder(p, i, k)
        grouped(p) ==
            \A i, k \in 1..n : i < k =>
                IF p[k] \in class(p[i])
                THEN ConsistentAmong(js, class(p[i]), hour) => inOrder(p, i, k)
                ELSE pMap(js[p[i]].priority) < pMap(js[p[k]].priority)
    IN IF ConsistentOn(js, w, hour)
       THEN {p \in perms : sorted(p)}
       ELSE {p \in perms : grouped(p)}

\* JobsAfterSort for a sort made on this.jobs itself: the positions w of
\* the WAITING jobs hold them in the sorted order
JobsSortedInPlace(js, w, sorted) ==
    [i \in 1..Len(js) |->
        IF \E k \in 1..Len(w) : w[k] = i
        THEN js[sorted[CHOOSE k \in 1..Len(w) : w[k] = i]]
        ELSE js[i]]

\* this.jobs once prioritizeJobs has sorted waitingJobs, the positions w:
\* filter returned an array of its own and sort works in place on that one
JobsAfterSort(js, w, sorted) == js

\* SmartLoop without the thermal rule
RECURSIVE SmartLoopNoThermal(_, _, _, _, _, _)
SmartLoopNoThermal(js, sorted, k, totalPowerUsed, solarAvailableKw, temp) ==
    IF k > Len(sorted) THEN << >>
    ELSE LET job == js[sorted[k]] IN
         IF job.priority = "medium" /\ solarAvailableKw < 1 /\ job.flexible
         THEN SmartLoopNoThermal(js, sorted, k + 1, totalPowerUsed,
                                 solarAvailableKw, temp)
         ELSE IF totalPowerUsed + job.powerKw <= MAX_DATA_HUB_POWER
         THEN <<sorted[k]>> \o SmartLoopNoThermal(js, sorted, k + 1,
                                                  totalPowerUsed + job.powerKw,
                                                  solarAvailableKw, temp)
         ELSE SmartLoopNoThermal(js, sorted, k + 1, totalPowerUsed,
                                 solarAvailableKw, temp)

\* SmartLoop with the solar rule applied to inflexible jobs only
RECURSIVE SmartLoopSolarInverted(_, _, _, _, _, _)
SmartLoopSolarInverted(js, sorted, k, totalPowerUsed, solarAvailableKw, temp) ==
    IF k > Len(sorted) THEN << >>
    ELSE LET job == js[sorted[k]] IN
         IF temp > THERMAL_THRESHOLD * 1000 /\ job.priority = "low"
         THEN SmartLoopSolarInverted(js, sorted, k + 1, totalPowerUsed,
                                     solarAvailableKw, temp)
         ELSE IF job.priority = "medium" /\ solarAvailableKw < 1 /\ ~job.flexible
         THEN SmartLoopSolarInverted(js, sorted, k + 1, totalPowerUsed,
                                     solarAvailableKw, temp)
         ELSE IF totalPowerUsed + job.powerKw <= MAX_DATA_HUB_POWER
         THEN <<sorted[k]>> \o SmartLoopSolarInverted(js, sorted, k + 1,
                                                      totalPowerUsed + job.powerKw,
                                                      solarAvailableKw, temp)
         ELSE SmartLoopSolarInverted(js, sorted, k + 1, totalPowerUsed,
                                     solarAvailableKw, temp)

\* SmartLoop with the solar rule applied to every medium job, flexible or not
RECURSIVE SmartLoopSolarAnyMedium(_, _, _, _, _, _)
SmartLoopSolarAnyMedium(js, sorted, k, totalPowerUsed, solarAvailableKw, temp) ==
    IF k > Len(sorted) THEN << >>
    ELSE LET job == js[sorted[k]] IN
         IF temp > THERMAL_THRESHOLD * 1000 /\ job.priority = "low"
         THEN SmartLoopSolarAnyMedium(js, sorted, k + 1, totalPowerUsed,
                                      solarAvailableKw, temp)
         ELSE IF job.priority = "medium" /\ solarAvailableKw < 1
         THEN SmartLoopSolarAnyMedium(js, sorted, k + 1, totalPowerUsed,
                                      solarAvailableKw, temp)
         ELSE IF totalPowerUsed + job.powerKw <= MAX_DATA_HUB_POWER
         THEN <<sorted[k]>> \o SmartLoopSolarAnyMedium(js, sorted, k + 1,
                                                       totalPowerUsed + job.powerKw,
                                                       solarAvailableKw, temp)
         ELSE SmartLoopSolarAnyMedium(js, sorted, k + 1, totalPowerUsed,
                                      solarAvailableKw, temp)

\* SmartLoop that leaves the loop at the first job that does not fit, as the
\* Baseline loop does
RECURSIVE SmartLoopStopsAtOverflow(_, _, _, _, _, _)
SmartLoopStopsAtOverflow(js, sorted, k, totalPowerUsed, solarAvailableKw, temp) ==
    IF k > Len(sorted) THEN << >>
    ELSE LET job == js[sorted[k]] IN
         IF temp > THERMAL_THRESHOLD * 1000 /\ job.priority = "low"
         THEN SmartLoopStopsAtOverflow(js, sorted, k + 1, totalPowerUsed,
                                       solarAvailableKw, temp)
         ELSE IF job.priority = "medium" /\ solarAvailableKw < 1 /\ job.flexible
         THEN SmartLoopStopsAtOverflow(js, sorted, k + 1, totalPowerUsed,
                                       solarAvailableKw, temp)
         ELSE IF totalPowerUsed + job.powerKw <= MAX_DATA_HUB_POWER
         THEN <<sorted[k]>> \o SmartLoopStopsAtOverflow(js, sorted, k + 1,
                                                        totalPowerUsed + job.powerKw,
                                                        solarAvailableKw, temp)
         ELSE << >>

\* body of the for loop of SmartScheduler.schedule from position k of the
\* sorted list on: the positions admitted
RECURSIVE SmartLoop(_, _, _, _, _, _)
SmartLoop(js, sorted, k, totalPowerUsed, solarAvailableKw, temp) ==
    IF k > Len(sorted) THEN << >>
    ELSE LET job == js[sorted[k]] IN
         IF temp > THERMAL_THRESHOLD * 1000 /\ job.priority = "low"
         THEN SmartLoop(js, sorted, k + 1, totalPowerUsed, solarAvailableKw, temp)
         ELSE IF job.priority = "medium" /\ solarAvailableKw < 1 /\ job.flexible
         THEN SmartLoop(js, sorted, k + 1, totalPowerUsed, solarAvailableKw, temp)
         ELSE IF totalPowerUsed + job.powerKw <= MAX_DATA_HUB_POWER
         THEN <<sorted[k]>> \o SmartLoop(js, sorted, k + 1,
                                         totalPowerUsed + job.powerKw,
                                         solarAvailableKw, temp)
         ELSE SmartLoop(js, sorted, k + 1, totalPowerUsed, solarAvailableKw, temp)

\* reduce((sum, j) => sum + j.powerKw, 0) over the jobs at the positions S
RECURSIVE SumPower(_, _)
SumPower(js, S) ==
    IF S = {} THEN 0
    ELSE LET i == CHOOSE x \in S : TRUE
         IN js[i].powerKw + SumPower(js, S \ {i})

\* SmartSchedule with the accumulator started at the power of the jobs that
\* are RUNNING
SmartScheduleCountsRunning(js, sorted, solarAvailableKw, temp) ==
    SmartLoop(js, sorted, 1,
              SumPower(js, {i \in 1..Len(js) : js[i].status = "RUNNING"}),
              solarAvailableKw, temp)

\* SmartScheduler.schedule on the sorted list: the positions it returns
SmartSchedule(js, sorted, solarAvailableKw, temp) ==
    SmartLoop(js, sorted, 1, 0, solarAvailableKw, temp)

\* ---------------------------------------------------------------------
\* BaselineScheduler
\* ---------------------------------------------------------------------
\* BaselineLoop that skips a job that does not fit and goes on
RECURSIVE BaselineLoopNoBreak(_, _, _, _)
BaselineLoopNoBreak(js, waiting, k, totalPower) ==
    IF k > Len(waiting) THEN << >>
    ELSE LET job == js[waiting[k]] IN
         IF totalPower + job.powerKw <= MAX_DATA_HUB_POWER
         THEN <<waiting[k]>> \o BaselineLoopNoBreak(js, waiting, k + 1,
                                                    totalPower + job.powerKw)
         ELSE BaselineLoopNoBreak(js, waiting, k + 1, totalPower)

\* BaselineLoop with the Smart scheduler's solar rule added to it
RECURSIVE BaselineLoopSolarRule(_, _, _, _)
BaselineLoopSolarRule(js, waiting, k, totalPower) ==
    IF k > Len(waiting) THEN << >>
    ELSE LET job == js[waiting[k]] IN
         IF job.priority = "medium" /\ job.flexible
            /\ solarData[currentHour \div 60] < 1
         THEN BaselineLoopSolarRule(js, waiting, k + 1, totalPower)
         ELSE IF totalPower + job.powerKw <= MAX_DATA_HUB_POWER
         THEN <<waiting[k]>> \o BaselineLoopSolarRule(js, waiting, k + 1,
                                                      totalPower + job.powerKw)
         ELSE << >>

\* body of the for loop of BaselineScheduler.schedule from position k on
RECURSIVE BaselineLoop(_, _, _, _)
BaselineLoop(js, waiting, k, totalPower) ==
    IF k > Len(waiting) THEN << >>
    ELSE LET job == js[waiting[k]] IN
         IF totalPower + job.powerKw <= MAX_DATA_HUB_POWER
         THEN <<waiting[k]>> \o BaselineLoop(js, waiting, k + 1,
                                             totalPower + job.powerKw)
         ELSE << >>

\* BaselineSchedule with the accumulator started at 0, as the Smart one's is
BaselineScheduleNoBackground(js) ==
    BaselineLoop(js, WaitingJobs(js), 1, 0)

\* BaselineScheduler.schedule: the positions it returns
BaselineSchedule(js) ==
    BaselineLoop(js, WaitingJobs(js), 1, BASELINE_BACKGROUND_LOAD)

\* job.start(hour) on every job a schedule call returns
StartAll(js, admitted, hour) ==
    LET A == {admitted[k] : k \in 1..Len(admitted)} IN
    [i \in 1..Len(js) |-> IF i \in A THEN JobStart(js[i], hour) ELSE js[i]]

\* ---------------------------------------------------------------------
\* Scheduler harness: a scheduler holding any short list of jobs at one
\* moment of a run (an hour, a temperature, a solar availability), its
\* schedule method called again and again, the jobs it returns being
\* started as schedule itself starts them
\* ---------------------------------------------------------------------
\* longest job list given to a scheduler of the harness
MaxSchedJobs == 3

\* deadlines are hour 10; at hour 0 the urgency scores are 0, 0.08, 0.16,
\* 1.67; one minute before the deadline the last job scores 1000
SchedJobs ==
    { NewJob("a", 2, 60, "high", NULL, TRUE),
      NewJob("b", 3, 48, "high", Some(600), TRUE),
      NewJob("c", 8, 96, "high", Some(600), TRUE),
      NewJob("long", 1, 1000, "high", Some(600), TRUE),
      NewJob("big", 11, 60, "critical", NULL, FALSE),
      NewJob("m", 2, 60, "medium", NULL, TRUE),
      NewJob("mi", 3, 60, "medium", NULL, FALSE),
      NewJob("l", 2, 60, "low", NULL, TRUE),
      \* a job that was started at hour 0 and has run its one step
      JobRunStep(JobStart(NewJob("done", 2, TIME_STEP_MINUTES, "critical",
                                 NULL, TRUE), 0),
                 TIME_STEP_MINUTES, 0) }

SchedLists == UNION {[1..n -> SchedJobs] : n \in 0..MaxSchedJobs}
SchedHours == {0, 599, 660}
SchedSolar == {0, 1}
SchedTemps == {IDEAL_TEMP * 1000, (THERMAL_THRESHOLD + 1) * 1000}

InitSched ==
    /\ pc = "sched"
    /\ jobs \in SchedLists
    /\ currentHour \in SchedHours
    /\ currentTemp \in SchedTemps
    /\ \E solar \in SchedSolar : solarData = <<solar>>
    /\ lastCall = [op |-> "new", hour |-> 0, result |-> << >>]
    /\ slaViolations = 0
    /\ advanced = 0
    /\ runCalls = 0
    /\ appliances = << >>
    /\ useSmart = TRUE
    /\ weatherData = << >>
    /\ currentlyRunning = {}
    /\ solarEnergy = 0
    /\ gridEnergy = 0
    /\ coolingEnergy = 0
    /\ carbon = 0
    /\ accumulatedCost = 0
    /\ logs = EmptyLogs
    /\ returned = << >>

\* the solar availability the harness passes to schedule
SchedSolarAvailable == solarData[1]

\* SmartScheduler.schedule(solar, temp, hour); sorted is the order the
\* jobs were evaluated in
CallSmartSchedule ==
    /\ pc = "sched"
    /\ \E sorted \in SortOutcomes(jobs, WaitingJobs(jobs), currentHour) :
          LET admitted == SmartSchedule(jobs, sorted, SchedSolarAvailable,
                                        currentTemp)
          IN /\ jobs' = JobsAfterSort(StartAll(jobs, admitted, currentHour),
                                      WaitingJobs(jobs), sorted)
             /\ lastCall' = [op |-> "schedule", smart |-> TRUE,
                             hour |-> currentHour, before |-> jobs,
                             sorted |-> sorted, result |-> admitted]
    /\ UNCHANGED <<simVars, slaViolations, pc, advanced, runCalls>>

\* BaselineScheduler.schedule(solar, temp, hour)
CallBaselineSchedule ==
    /\ pc = "sched"
    /\ LET admitted == BaselineSchedule(jobs)
       IN /\ jobs' = StartAll(jobs, admitted, currentHour)
          /\ lastCall' = [op |-> "schedule", smart |-> FALSE,
                          hour |-> currentHour, before |-> jobs,
                          sorted |-> WaitingJobs(jobs), result |-> admitted]
    /\ UNCHANGED <<simVars, slaViolations, pc, advanced, runCalls>>

NextSched == CallSmartSchedule \/ CallBaselineSchedule

SpecSched == InitSched /\ [][NextSched]_vars

\* ---------------------------------------------------------------------
\* physicsModels.ts
\* ---------------------------------------------------------------------
\* getCoolingPowerKw, in W, for hubTemp in milli-degrees and the load in kW
getCoolingPowerKw(hubTemp, computeLoadKw) ==
    IF hubTemp <= TEMP_THRESHOLD * 1000 THEN 0
    ELSE LET excess == hubTemp - TEMP_THRESHOLD * 1000
             coolingReq == (COOLING_FACTOR[1] * excess) \div COOLING_FACTOR[2]
                           + (LOAD_COOLING_FACTOR[1] * computeLoadKw * 1000)
                                 \div LOAD_COOLING_FACTOR[2]
             electricalPower == coolingReq \div COOLING_COP
         IN Max(0, electricalPower)

\* ---------------------------------------------------------------------
\* runSmartSimulation
\* ---------------------------------------------------------------------
\* Appliances the runs are given.  duration is in hours, as a fraction
\* <<numerator, denominator>>; deadlineHour is in hours.
Appliances ==
    { [name |-> "Lighting", power |-> 1, duration |-> <<1, 1>>, priority |-> "Critical",
       flexible |-> FALSE, deadlineHour |-> NULL],
      [name |-> "AC", power |-> 4, duration |-> <<2, 1>>, priority |-> "High",
       flexible |-> TRUE, deadlineHour |-> Some(1)],
      [name |-> "Pump", power |-> 2, duration |-> <<1, 1>>, priority |-> "Medium",
       flexible |-> TRUE, deadlineHour |-> NULL],
      [name |-> "Heater", power |-> 3, duration |-> <<1, 2>>, priority |-> "urgent",
       flexible |-> FALSE, deadlineHour |-> NULL],
      [name |-> "EV", power |-> 8, duration |-> <<0, 1>>, priority |-> "LOW",
       flexible |-> TRUE, deadlineHour |-> NULL] }

Catalogs == UNION {[1..n -> Appliances] : n \in 0..MaxJobs}

\* files.solar and files.weather: 24 points without timestamps, so that
\* createLookup finds every value by index position
SolarSeries ==
    { [i \in 0..23 |-> 0],
      [i \in 0..23 |-> 1],
      [i \in 0..23 |-> IF i >= 6 /\ i < 18 THEN 5 ELSE 0],
      [i \in 0..23 |-> IF i = 23 THEN 5 ELSE 0] }

\* the last series is a file of readings in kelvin
WeatherSeries ==
    { [i \in 0..23 |-> 20],
      [i \in 0..23 |-> 50],
      [i \in 0..23 |-> 300] }

\* Math.floor(currentHour): where the accumulated double lies just below a
\* whole hour its floor is the hour before.  (At no step does the rounding
\* change currentHour < SIMULATION_END_HOUR or currentHour > 18: the loop
\* runs 144 times and 17.99.. > 18 is false.)
MathFloorHour(hour) ==
    IF DoubleBelowHour(hour) THEN hour \div 60 - 1 ELSE hour \div 60

\* the steps at which the accumulated double of currentHour is the double
\* nearest to the exact hour, the one Number() makes of that hour written out
DoubleExactSteps == {0, 1, 2, 3, 4, 8, 9, 10, 12, 13, 29, 30, 31, 56, 57, 58,
                     116, 117, 118}

\* map.has(h) finds the key: the key is a number (in minutes here) and the
\* double h is that number
KeyIsHour(key, hour) ==
    /\ key = hour
    /\ (hour - SIMULATION_START_HOUR * 60) \div TIME_STEP_MINUTES \in DoubleExactSteps

\* createLookup(data)(h) for data a function from the index positions
\* 0 .. length - 1 to points [timestamp, value]; a timestamp is null or a
\* number of minutes (Number(p.timestamp) * 60).  Of two points with one key
\* map.set keeps the later.
createLookup(data, hour) ==
    IF DOMAIN data = {} THEN NULL
    ELSE LET keyed == {i \in DOMAIN data :
                          /\ data[i].timestamp # NULL
                          /\ KeyIsHour(data[i].timestamp[1], hour)}
             last == CHOOSE i \in keyed : \A k \in keyed : k <= i
         IN IF keyed # {} THEN Some(data[last].value)
            ELSE IF MathFloorHour(hour) \in DOMAIN data
            THEN Some(data[MathFloorHour(hour)].value)
            ELSE NULL

\* the function createLookup returns, for data without timestamps
Lookup(data, hour) ==
    createLookup([i \in DOMAIN data |-> [timestamp |-> NULL, value |-> data[i]]],
                 hour)

\* A. solarRaw !== null ? solarRaw : getSolarPower(currentHour, ...).  The
\* physics model's value is left as the term that stands for it.
SolarAvailable(data, hour) ==
    LET solarRaw == createLookup(data, hour)
    IN IF solarRaw # NULL THEN [source |-> "data", value |-> solarRaw[1]]
       ELSE [source |-> "physics", value |-> <<"getSolarPower", hour>>]

\* app.duration ? (app.duration * 60) : 120
DurationMinutes(app) ==
    IF app.duration[1] # 0 THEN (app.duration[1] * 60) \div app.duration[2] ELSE 120

\* appliances.forEach(app => scheduler.addJob(new Job(...)))
SetupJobs(apps) ==
    [i \in 1..Len(apps) |->
        NewJob(apps[i].name, apps[i].power, DurationMinutes(apps[i]),
               apps[i].priority, Some(18 * 60), apps[i].flexible # FALSE)]

\* the state a call of runSmartSimulation reaches its loop in, for an
\* appliance list out of catalogs
InitRun(catalogs) ==
    /\ appliances \in catalogs
    /\ useSmart \in BOOLEAN
    /\ solarData \in SolarSeries
    /\ weatherData \in WeatherSeries
    /\ jobs = SetupJobs(appliances)
    /\ currentlyRunning = {}
    /\ currentTemp = IDEAL_TEMP * 1000
    /\ currentHour = SIMULATION_START_HOUR * 60
    /\ solarEnergy = 0
    /\ gridEnergy = 0
    /\ coolingEnergy = 0
    /\ carbon = 0
    /\ slaViolations = 0
    /\ accumulatedCost = 0
    /\ logs = EmptyLogs
    /\ returned = << >>
    /\ pc = "loop"
    /\ advanced = 0
    /\ runCalls = 0
    /\ lastCall = [op |-> "new", hour |-> 0, result |-> FALSE]

Init == InitRun(Catalogs)

\* RunExisting that calls runStep on every job of the scheduler, so that
\* runStep starts the WAITING ones
RunExistingEveryJob(js, running, hour) ==
    [i \in 1..Len(js) |-> JobRunStep(js[i], TIME_STEP_MINUTES, hour)]

\* RunExisting that holds every running job back while the running jobs
\* together draw more than the facility's capacity
RunExistingPreempts(js, running, hour) ==
    [i \in 1..Len(js) |->
        IF i \in running /\ SumPower(js, running) <= MAX_DATA_HUB_POWER
        THEN JobRunStep(js[i], TIME_STEP_MINUTES, hour) ELSE js[i]]

\* B. currentlyRunning.forEach(job => job.runStep(...)): the jobs afterwards
RunExisting(js, running, hour) ==
    [i \in 1..Len(js) |->
        IF i \in running THEN JobRunStep(js[i], TIME_STEP_MINUTES, hour) ELSE js[i]]

\* AddNewJobs with the membership test not negated: nothing is ever added
AddNewJobsDropped(js, running, newJobs) ==
    running \cup {i \in {newJobs[k] : k \in 1..Len(newJobs)} :
                     i \in running /\ js[i].status # "DONE"}

\* C. newJobs.forEach(j => ... currentlyRunning.add(j)): the set afterwards
AddNewJobs(js, running, newJobs) ==
    running \cup {i \in {newJobs[k] : k \in 1..Len(newJobs)} :
                     i \notin running /\ js[i].status # "DONE"}

StillRunningKeepsDone(js, running) == running

\* B. if (job.status === 'DONE') currentlyRunning.delete(job): the set afterwards
StillRunning(js, running) ==
    {i \in running : js[i].status # "DONE"}

\* D. the thermal update: the temperature after the step
ThermalUpdate(temp, computeLoad, coolingNeeded, ambientTemp) ==
    temp + (HEAT_ACCUMULATION[1] * computeLoad * 1000) \div HEAT_ACCUMULATION[2]
         - (COOLING_EFFICIENCY[1] * coolingNeeded) \div COOLING_EFFICIENCY[2]
         - (THERMAL_DISSIPATION[1] * (temp - ambientTemp * 1000))
               \div THERMAL_DISSIPATION[2]

\* F. scheduler.jobs.forEach(j => { if (j.deadlineMissed(currentHour)) ... })
CheckDeadlines(js, hour) ==
    [i \in 1..Len(js) |-> JobDeadlineMissed(js[i], hour)]

MissedCount(js, hour) ==
    Cardinality({i \in 1..Len(js) : DeadlineMissedResult(js[i], hour)})

\* SolarUsed that takes all the solar power there is
SolarUsedAllAvailable(computeLoad, solarAvailable) == solarAvailable

\* D. Math.min(computeLoad, solarAvailable)
SolarUsed(computeLoad, solarAvailable) == Min(computeLoad, solarAvailable)

\* D. Math.max(0, computeLoad - solarUsed)
GridUsed(computeLoad, solarUsed) == Max(0, computeLoad - solarUsed)

\* getGridPrice(currentHour), per kWh.  The double that currentHour holds at
\* step 108 is 17.99999999999999, so hour >= 18 is first true one step after
\* the whole hour 18; hour < 6 and hour < 22 are decided as for the exact
\* hours (the doubles at 6 and at 22 lie just above them).
getGridPrice(hour) ==
    IF hour < 6 * 60 THEN 4
    ELSE IF hour > 18 * 60 /\ hour < 22 * 60 THEN 12
    ELSE 8

\* the while condition entered with the loop's > for its <
LoopConditionInverted(hour) == hour > SIMULATION_END_HOUR * 60

\* while (currentHour < SIMULATION_END_HOUR)
LoopCondition(hour) == hour < SIMULATION_END_HOUR * 60

\* NextHour with a step of twice the configured length
NextHourTwoSteps(hour) == hour + 2 * TIME_STEP_MINUTES

\* currentHour += dtHours
NextHour(hour) == hour + TIME_STEP_MINUTES

\* Metrics with the total grid draw reported as energy.grid, the cooling's
\* share not taken out
MetricsGridWithCooling ==
    [energy |-> [solar |-> solarEnergy,
                 grid |-> gridEnergy,
                 cooling |-> coolingEnergy,
                 total |-> solarEnergy + gridEnergy],
     cost |-> [total |-> accumulatedCost, grid |-> accumulatedCost, penalty |-> 0],
     carbon |-> carbon,
     sla |-> [violations |-> slaViolations,
              penaltyKwh |-> slaViolations * DEADLINE_PENALTY_KWH],
     timeline |-> [i \in 1..Len(jobs) |->
                      [name |-> jobs[i].name, start |-> jobs[i].startHour,
                       duration |-> jobs[i].duration,
                       priority |-> jobs[i].priority, status |-> jobs[i].status]],
     logs |-> logs]

\* the record runSmartSimulation returns (energies in W * step, the
\* timeline's duration in minutes, carbon times the denominator of
\* GRID_CARBON_INTENSITY)
Metrics ==
    [energy |-> [solar |-> solarEnergy,
                 grid |-> gridEnergy - coolingEnergy,
                 cooling |-> coolingEnergy,
                 total |-> solarEnergy + gridEnergy],
     cost |-> [total |-> accumulatedCost, grid |-> accumulatedCost, penalty |-> 0],
     carbon |-> carbon,
     sla |-> [violations |-> slaViolations,
              penaltyKwh |-> slaViolations * DEADLINE_PENALTY_KWH],
     timeline |-> [i \in 1..Len(jobs) |->
                      [name |-> jobs[i].name, start |-> jobs[i].startHour,
                       duration |-> jobs[i].duration,
                       priority |-> jobs[i].priority, status |-> jobs[i].status]],
     logs |-> logs]

\* one iteration of the while loop
SimStep ==
    /\ pc = "loop"
    /\ LoopCondition(currentHour)
    /\ LET solarRaw == Lookup(solarData, currentHour)
           tempRaw == Lookup(weatherData, currentHour)
           solarAvailable == solarRaw[1]
           ambientTemp == tempRaw[1]
           ran == RunExisting(jobs, currentlyRunning, currentHour)
           stillRunning == StillRunning(ran, currentlyRunning)
       IN \E sorted \in SortOutcomes(ran, WaitingJobs(ran), currentHour) :
          LET newJobs == IF useSmart
                         THEN SmartSchedule(ran, sorted, solarAvailable, currentTemp)
                         ELSE BaselineSchedule(ran)
              started == IF useSmart
                         THEN JobsAfterSort(StartAll(ran, newJobs, currentHour),
                                            WaitingJobs(ran), sorted)
                         ELSE StartAll(ran, newJobs, currentHour)
              running == AddNewJobs(started, stillRunning, newJobs)
              computeLoad == SumPower(started, running)
              solarUsed == SolarUsed(computeLoad, solarAvailable)
              gridUsed == GridUsed(computeLoad, solarUsed)
              coolingNeeded == getCoolingPowerKw(currentTemp, computeLoad)
              currentGridUse == gridUsed * 1000 + coolingNeeded
              stepCost == currentGridUse * getGridPrice(currentHour)
          IN /\ currentlyRunning' = running
             /\ currentTemp' = ThermalUpdate(currentTemp, computeLoad,
                                             coolingNeeded, ambientTemp)
             /\ solarEnergy' = solarEnergy + solarUsed * 1000
             /\ gridEnergy' = gridEnergy + currentGridUse
             /\ coolingEnergy' = coolingEnergy + coolingNeeded
             /\ carbon' = carbon + currentGridUse * GRID_CARBON_INTENSITY[1]
             /\ accumulatedCost' = accumulatedCost + stepCost
             /\ logs' = [time |-> Append(logs.time, currentHour),
                         solar |-> Append(logs.solar, solarUsed),
                         grid |-> Append(logs.grid, currentGridUse),
                         temp |-> Append(logs.temp, currentTemp'),
                         cooling |-> Append(logs.cooling, coolingNeeded),
                         cost |-> Append(logs.cost, accumulatedCost')]
             /\ jobs' = CheckDeadlines(started, currentHour)
             /\ slaViolations' = slaViolations + MissedCount(started, currentHour)
    /\ currentHour' = NextHour(currentHour)
    /\ UNCHANGED <<appliances, useSmart, solarData, weatherData, returned, pc,
                   harnessVars>>

\* the loop ends and the metrics record is returned
Finish ==
    /\ pc = "loop"
    /\ ~LoopCondition(currentHour)
    /\ returned' = Append(returned, Metrics)
    /\ pc' = "done"
    /\ UNCHANGED <<appliances, useSmart, solarData, weatherData, jobs,
                   currentlyRunning, currentTemp, currentHour, solarEnergy,
                   gridEnergy, coolingEnergy, carbon, slaViolations,
                   accumulatedCost, logs, harnessVars>>

Next == SimStep \/ Finish

Spec == Init /\ [][Next]_vars

\* ---------------------------------------------------------------------
\* Runs over heavy and short appliances: critical jobs that do not fit
\* the facility together, and durations that are no whole number of steps
\* ---------------------------------------------------------------------
HeavyAppliances ==
    { [name |-> "Server", power |-> 8, duration |-> <<1, 4>>, priority |-> "Critical",
       flexible |-> FALSE, deadlineHour |-> NULL],
      [name |-> "Chiller", power |-> 6, duration |-> <<3, 4>>, priority |-> "critical",
       flexible |-> TRUE, deadlineHour |-> NULL],
      [name |-> "Furnace", power |-> 11, duration |-> <<3, 2>>, priority |-> "Critical",
       flexible |-> TRUE, deadlineHour |-> NULL],
      [name |-> "Kiln", power |-> 12, duration |-> <<1, 1>>, priority |-> "Low",
       flexible |-> TRUE, deadlineHour |-> NULL] }

HeavyCatalogs == UNION {[1..n -> HeavyAppliances] : n \in 0..MaxJobs}

InitHeavy == InitRun(HeavyCatalogs)

SpecHeavy == InitHeavy /\ [][Next]_vars

\* ---------------------------------------------------------------------
\* Lookup harness: the environment reads of a run over a short series of
\* points, with or without timestamps
\* ---------------------------------------------------------------------
\* longest series of points
MaxPoints == 2

\* a timestamp is absent, a whole hour, or a date that Number() makes NaN
\* (0 - 60 here, which is no hour of a run)
LookupPoints ==
    [timestamp : {NULL, Some(0), Some(60), Some(0 - 60)}, value : {3, 7}]

LookupSeries == UNION {[0..(n - 1) -> LookupPoints] : n \in 0..MaxPoints}

InitLookup ==
    /\ pc = "lookup"
    /\ solarData \in LookupSeries
    /\ lastCall = [op |-> "new", hour |-> 0, result |-> << >>]
    /\ jobs = << >>
    /\ slaViolations = 0
    /\ advanced = 0
    /\ runCalls = 0
    /\ appliances = << >>
    /\ useSmart = TRUE
    /\ weatherData = << >>
    /\ currentlyRunning = {}
    /\ currentTemp = IDEAL_TEMP * 1000
    /\ currentHour = SIMULATION_START_HOUR * 60
    /\ solarEnergy = 0
    /\ gridEnergy = 0
    /\ coolingEnergy = 0
    /\ carbon = 0
    /\ accumulatedCost = 0
    /\ logs = EmptyLogs
    /\ returned = << >>

\* part A of one iteration of the loop, and the step to the next hour
ReadEnvironment ==
    /\ pc = "lookup"
    /\ LoopCondition(currentHour)
    /\ lastCall' = [op |-> "environment", hour |-> currentHour,
                    result |-> SolarAvailable(solarData, currentHour)]
    /\ currentHour' = NextHour(currentHour)
    /\ UNCHANGED <<appliances, useSmart, solarData, weatherData, jobs,
                   currentlyRunning, currentTemp, solarEnergy, gridEnergy,
                   coolingEnergy, carbon, slaViolations, accumulatedCost,
                   logs, returned, pc, advanced, runCalls>>

NextLookup == ReadEnvironment

SpecLookup == InitLookup /\ [][NextLookup]_vars

\* ---------------------------------------------------------------------
\* Results page: the Smart run, then the Baseline run, on the same inputs
\* ---------------------------------------------------------------------
\* EnterRun with the scheduler kept from the call before: the Job objects of
\* the first run are the ones the second run works on
EnterRunKeepsScheduler(apps) ==
    [jobs |-> jobs, currentlyRunning |-> {},
     currentTemp |-> IDEAL_TEMP * 1000,
     currentHour |-> SIMULATION_START_HOUR * 60,
     solarEnergy |-> 0, gridEnergy |-> 0, coolingEnergy |-> 0, carbon |-> 0,
     slaViolations |-> 0, accumulatedCost |-> 0, logs |-> EmptyLogs]

\* the locals a call of runSmartSimulation has when it reaches its loop
EnterRun(apps) ==
    [jobs |-> SetupJobs(apps), currentlyRunning |-> {},
     currentTemp |-> IDEAL_TEMP * 1000,
     currentHour |-> SIMULATION_START_HOUR * 60,
     solarEnergy |-> 0, gridEnergy |-> 0, coolingEnergy |-> 0, carbon |-> 0,
     slaViolations |-> 0, accumulatedCost |-> 0, logs |-> EmptyLogs]

InitResults == Init /\ useSmart = TRUE

\* runSmartSimulation(parsed.appliances, parsed.files, ..., false), called
\* once the Smart run has returned
RunBaseline ==
    /\ pc = "done"
    /\ useSmart
    /\ Len(returned) = 1
    /\ LET e == EnterRun(appliances)
       IN /\ jobs' = e.jobs
          /\ currentlyRunning' = e.currentlyRunning
          /\ currentTemp' = e.currentTemp
          /\ currentHour' = e.currentHour
          /\ solarEnergy' = e.solarEnergy
          /\ gridEnergy' = e.gridEnergy
          /\ coolingEnergy' = e.coolingEnergy
          /\ carbon' = e.carbon
          /\ slaViolations' = e.slaViolations
          /\ accumulatedCost' = e.accumulatedCost
          /\ logs' = e.logs
    /\ useSmart' = FALSE
    /\ pc' = "loop"
    /\ UNCHANGED <<appliances, solarData, weatherData, returned, harnessVars>>

NextResults == SimStep \/ Finish \/ RunBaseline

SpecResults == InitResults /\ [][NextResults]_vars

\* the loop is straight-line code on one thread: as long as an iteration or
\* the return can be executed, it is
FairSpec == Spec /\ WF_vars(Next)

\* ---------------------------------------------------------------------
\* Properties
\* ---------------------------------------------------------------------
Jobs == 1..Len(jobs)
InRun == pc \in {"loop", "done"}
\* the hour of the step made last, once a step has been made
LastHour == currentHour - TIME_STEP_MINUTES
Stepped == InRun /\ currentHour > SIMULATION_START_HOUR * 60
RunningJobs == {i \in Jobs : jobs[i].status = "RUNNING"}
StatusRank(st) == CASE st = "WAITING" -> 0 [] st = "RUNNING" -> 1 [] st = "DONE" -> 2

\* C1: in a Smart run the powerKw of the jobs that are RUNNING after a
\* step's scheduling never add up to more than MAX_DATA_HUB_POWER.
C1_SmartLoadWithinCapacity ==
    (InRun /\ useSmart) => SumPower(jobs, RunningJobs) <= MAX_DATA_HUB_POWER

\* the power added up over the first k waiting positions of w
RECURSIVE PrefixPower(_, _, _)
PrefixPower(js, w, k) ==
    IF k = 0 THEN 0 ELSE js[w[k]].powerKw + PrefixPower(js, w, k - 1)

\* C2: a Baseline schedule call admits exactly the longest prefix of the
\* WAITING jobs, in insertion order, whose cumulative powerKw on top of the
\* background load stays within capacity; from the first job that does not
\* fit on, none is admitted.
C2_BaselineAdmitsPrefix ==
    [][(InRun /\ ~useSmart /\ currentHour' # currentHour) =>
          LET w == WaitingJobs(jobs)
              fits(k) == BASELINE_BACKGROUND_LOAD + PrefixPower(jobs, w, k)
                            <= MAX_DATA_HUB_POWER
          IN \A k \in 1..Len(w) :
                (jobs'[w[k]].status # "WAITING") <=> (\A m \in 1..k : fits(m))]_vars

\* a Baseline step was made and a job that would fit on its own is left
\* WAITING behind an earlier job that does not fit
C2_Witness ==
    /\ Stepped /\ ~useSmart
    /\ \E i, k \in Jobs :
          /\ i < k
          /\ jobs[i].status = "WAITING" /\ jobs[k].status = "WAITING"
          /\ BASELINE_BACKGROUND_LOAD + jobs[i].powerKw > MAX_DATA_HUB_POWER
          /\ BASELINE_BACKGROUND_LOAD + jobs[k].powerKw <= MAX_DATA_HUB_POWER

\* C3: a Smart step whose temperature before the update is above
\* THERMAL_THRESHOLD admits no low-priority job: such a job stays WAITING
\* and gets no startHour in that step.
C3_NoLowAdmissionWhenHot ==
    [][(InRun /\ useSmart /\ currentTemp > THERMAL_THRESHOLD * 1000) =>
          \A i \in Jobs :
             (jobs[i].priority = "low" /\ jobs[i].status = "WAITING") =>
                (jobs'[i].status = "WAITING" /\ jobs'[i].startHour = NULL)]_vars

\* a Smart run that ended with a low-priority job, small enough to be
\* admitted, kept WAITING by the temperature
C3_Witness ==
    /\ pc = "done" /\ useSmart
    /\ currentTemp > THERMAL_THRESHOLD * 1000
    /\ \E i \in Jobs :
          /\ jobs[i].priority = "low" /\ jobs[i].status = "WAITING"
          /\ jobs[i].powerKw <= MAX_DATA_HUB_POWER
    /\ \E i \in Jobs : jobs[i].status = "DONE"

SolarAlwaysLow == \A i \in DOMAIN solarData : solarData[i] < 1

\* C4: in a Smart run whose solar availability is below 1 kW at every
\* step, a flexible medium-priority job is WAITING with a null startHour
\* in every state of the run.
C4_FlexibleMediumWaitsWithoutSolar ==
    (InRun /\ useSmart /\ SolarAlwaysLow) =>
       \A i \in Jobs :
          (jobs[i].priority = "medium" /\ jobs[i].flexible) =>
             (jobs[i].status = "WAITING" /\ jobs[i].startHour = NULL)

\* a finished dark Smart run with a flexible medium job still WAITING beside
\* a job that ran to DONE
C4_Witness ==
    /\ pc = "done" /\ useSmart /\ SolarAlwaysLow
    /\ \E i \in Jobs : jobs[i].priority = "medium" /\ jobs[i].flexible
                       /\ jobs[i].status = "WAITING"
    /\ \E i \in Jobs : jobs[i].status = "DONE"

\* C5: whatever is called on a Job, its status never moves backwards along
\* WAITING -> RUNNING -> DONE.
C5_StatusMovesForward ==
    [][\A i \in Jobs :
          StatusRank(jobs'[i].status) >= StatusRank(jobs[i].status)]_vars

\* start was called on a job that was DONE, which stayed DONE
C5_Witness ==
    /\ pc = "job"
    /\ lastCall.op = "start"
    /\ jobs[1].status = "DONE"

\* C6: for a job of non-negative duration and runStep calls with
\* dtMin >= 0, remaining never increases and is never negative.
C6_RemainingNonIncreasing ==
    [][\A i \in Jobs :
          /\ jobs'[i].remaining <= jobs[i].remaining
          /\ jobs'[i].remaining >= 0]_vars

\* a runStep call took more minutes than were left and remaining is 0
C6_Witness ==
    /\ pc = "job"
    /\ lastCall.op = "runStep"
    /\ advanced > jobs[1].duration
    /\ jobs[1].remaining = 0

\* C7 as stated: a job is DONE exactly when the minutes passed to runStep
\* so far are at least its duration, and a DONE job has remaining = 0.
C7_DoneIffAdvancedAsStated ==
    pc = "job" =>
       /\ (jobs[1].status = "DONE") <=> (advanced >= jobs[1].duration)
       /\ jobs[1].status = "DONE" => jobs[1].remaining = 0

\* C7 amended: a job is DONE exactly when runStep has been called at least
\* once and the minutes passed to it (each >= 0) are at least the job's
\* duration, and a DONE job has remaining = 0.
C7_DoneIffAdvanced ==
    pc = "job" =>
       /\ (jobs[1].status = "DONE") <=>
             (runCalls > 0 /\ advanced >= jobs[1].duration)
       /\ jobs[1].status = "DONE" => jobs[1].remaining = 0

\* a job of positive duration became DONE with exactly its duration advanced
C7_Witness ==
    /\ pc = "job"
    /\ jobs[1].duration > 0
    /\ advanced = jobs[1].duration
    /\ jobs[1].status = "DONE"

\* C8: deadlineMissed answers true at most once per job: the jobs answered
\* true are the penalized ones, one count each, so the count of true answers
\* never exceeds the number of jobs.
C8_DeadlineMissedOnce ==
    /\ slaViolations <= Len(jobs)
    /\ slaViolations = Cardinality({i \in Jobs : jobs[i].penalized})

\* a penalized job, past its deadline and not DONE, was asked again and
\* the answer was false
C8_Witness ==
    /\ pc = "job"
    /\ slaViolations = 1
    /\ lastCall.op = "deadlineMissed" /\ lastCall.result = FALSE
    /\ jobs[1].deadline # NULL /\ lastCall.hour > jobs[1].deadline[1]
    /\ jobs[1].status # "DONE"

\* C9: a job whose specification gives deadlineHour = d has one violation
\* recorded at the first step whose hour is above d at which it is not
\* DONE, and none before; the violations counted are those of the jobs.
C9_ViolationAtSpecifiedDeadline ==
    Stepped =>
       /\ \A i \in Jobs :
             appliances[i].deadlineHour # NULL =>
                LET d == appliances[i].deadlineHour[1] * 60 IN
                /\ (LastHour > d /\ jobs[i].status # "DONE") => jobs[i].penalized
                /\ jobs[i].penalized => LastHour > d
       /\ slaViolations = Cardinality({i \in Jobs : jobs[i].penalized})

Started == {i \in Jobs : jobs[i].startHour # NULL}

RECURSIVE SumOver(_, _)
SumOver(f, S) ==
    IF S = {} THEN 0
    ELSE LET i == CHOOSE x \in S : TRUE IN f[i] + SumOver(f, S \ {i})

\* energy.solar + energy.grid of the metrics record, in W * step
ComputeEnergy == solarEnergy + (gridEnergy - coolingEnergy)

C11_RunTerminates ==
    /\ [][pc = "loop" /\ pc' = "loop"
            => currentHour' = currentHour + TIME_STEP_MINUTES]_vars
    /\ <>(pc = "done" /\ Len(returned) = 1
          /\ currentHour >= SIMULATION_END_HOUR * 60)

\* a run with work in it has ended after its 144 iterations
C11_Witness ==
    /\ pc = "done"
    /\ Len(returned) = 1
    /\ Len(logs.time) = 144
    /\ \E i \in Jobs : jobs[i].status = "DONE"

\* the timeline of the record the run returned
Timeline == returned[Len(returned)].timeline

\* the whole steps a job of the given duration needs, in minutes
RunLength(duration) ==
    ((duration + TIME_STEP_MINUTES - 1) \div TIME_STEP_MINUTES) * TIME_STEP_MINUTES

\* C12 as stated: when a run has ended every job is DONE or still WAITING,
\* and no entry of the returned timeline is RUNNING.
C12_NoRunningAtEndAsStated ==
    pc = "done" =>
        /\ \A i \in Jobs : jobs[i].status \in {"DONE", "WAITING"}
        /\ \A i \in DOMAIN Timeline : Timeline[i].status # "RUNNING"

\* C12: when a run has ended the returned timeline shows every job's status,
\* and a job is RUNNING there exactly when it was admitted too late to be
\* finished by the last step; every job admitted earlier is DONE and every
\* job never admitted is WAITING.
C12_RunningAtEndIffAdmittedLate ==
    pc = "done" =>
        /\ DOMAIN Timeline = Jobs
        /\ \A i \in Jobs :
              /\ Timeline[i].status = jobs[i].status
              /\ jobs[i].status = "WAITING" <=> jobs[i].startHour = NULL
              /\ jobs[i].status = "RUNNING" <=>
                    /\ jobs[i].startHour # NULL
                    /\ jobs[i].startHour[1] + RunLength(jobs[i].duration) > LastHour
              /\ jobs[i].status = "DONE" <=>
                    /\ jobs[i].startHour # NULL
                    /\ jobs[i].startHour[1] + RunLength(jobs[i].duration) <= LastHour

\* a run has ended with one job finished and another still RUNNING
C12_Witness ==
    /\ pc = "done"
    /\ \E i \in DOMAIN Timeline : Timeline[i].status = "RUNNING"
    /\ \E i \in DOMAIN Timeline : Timeline[i].status = "DONE"

\* The step at which a Baseline run admits each appliance of a catalog, worked
\* out from the catalog's powers alone: the queue is cut into consecutive
\* groups that each fit on top of the background load, one group per step,
\* and stops for good at the first appliance that does not fit alone.
\* 0 - 1 stands for never.
RECURSIVE BaselineGroups(_, _, _, _, _)
BaselineGroups(apps, i, group, load, blocked) ==
    IF i > Len(apps) THEN << >>
    ELSE IF blocked
    THEN <<0 - 1>> \o BaselineGroups(apps, i + 1, group, load, TRUE)
    ELSE IF load + apps[i].power <= MAX_DATA_HUB_POWER
    THEN <<group>> \o BaselineGroups(apps, i + 1, group,
                                     load + apps[i].power, FALSE)
    ELSE IF BASELINE_BACKGROUND_LOAD + apps[i].power <= MAX_DATA_HUB_POWER
    THEN <<group + 1>> \o BaselineGroups(apps, i + 1, group + 1,
                                         BASELINE_BACKGROUND_LOAD + apps[i].power,
                                         FALSE)
    ELSE <<0 - 1>> \o BaselineGroups(apps, i + 1, group, load, TRUE)

BaselineAdmissionStep(apps) ==
    BaselineGroups(apps, 1, 0, BASELINE_BACKGROUND_LOAD, FALSE)

\* what a Baseline run over the catalog shows for job i once the steps up to
\* hour last have been made
BaselineExpected(apps, i, last) ==
    LET step == BaselineAdmissionStep(apps)[i]
        hour == SIMULATION_START_HOUR * 60 + step * TIME_STEP_MINUTES
    IN IF step < 0 \/ hour > last
       THEN [start |-> NULL, status |-> "WAITING"]
       ELSE [start |-> Some(hour),
             status |-> IF hour + RunLength(DurationMinutes(apps[i])) <= last
                        THEN "DONE" ELSE "RUNNING"]

\* C17: the Baseline policy ignores the environment: at every step of a
\* Baseline run each job's startHour and status are the ones fixed by the
\* catalog alone, whatever the solar and weather series of the run.
C17_BaselineIgnoresEnvironment ==
    InRun /\ ~useSmart =>
        \A i \in Jobs :
            /\ jobs[i].startHour = BaselineExpected(appliances, i, LastHour).start
            /\ jobs[i].status = BaselineExpected(appliances, i, LastHour).status

\* a Baseline run without solar and in kelvin-high heat has finished a
\* flexible medium job
C17_Witness ==
    /\ InRun /\ ~useSmart /\ Stepped
    /\ \A h \in DOMAIN solarData : solarData[h] = 0
    /\ weatherData[0] = 300
    /\ \E i \in Jobs : /\ jobs[i].priority = "medium" /\ jobs[i].flexible
                        /\ jobs[i].status = "DONE"

\* C13: the Baseline run made after the Smart run on the same appliance list
\* works on Job records of its own: it starts with every job built afresh
\* from the catalog and with every accumulator at its initial value, which
\* is the state a Baseline run made alone starts in; its timeline is the one
\* the catalog alone fixes for a Baseline run; and no step of either run
\* changes the appliance list or the record the first run returned.
C13_SecondRunUnaffectedByFirst ==
    /\ [](InRun /\ ~useSmart =>
            /\ Len(returned) >= 1
            /\ Len(jobs) = Len(appliances)
            /\ \A i \in Jobs :
                  /\ jobs[i].name = appliances[i].name
                  /\ jobs[i].powerKw = appliances[i].power
                  /\ jobs[i].duration = DurationMinutes(appliances[i])
            /\ (pc = "loop" /\ currentHour = SIMULATION_START_HOUR * 60 =>
                  /\ \A i \in Jobs :
                        /\ jobs[i].status = "WAITING"
                        /\ jobs[i].remaining = jobs[i].duration
                        /\ ~jobs[i].penalized
                        /\ jobs[i].startHour = NULL
                  /\ currentlyRunning = {}
                  /\ currentTemp = IDEAL_TEMP * 1000
                  /\ <<solarEnergy, gridEnergy, coolingEnergy,
                        slaViolations, accumulatedCost>> = <<0, 0, 0, 0, 0>>
                  /\ logs = EmptyLogs)
            /\ (pc = "done" =>
                  /\ Len(returned) = 2
                  /\ \A i \in Jobs :
                        /\ returned[2].timeline[i].start =
                              BaselineExpected(appliances, i, LastHour).start
                        /\ returned[2].timeline[i].status =
                              BaselineExpected(appliances, i, LastHour).status))
    /\ [][/\ appliances' = appliances
          /\ returned # << >> => returned'[1] = returned[1]]_vars

\* both runs have returned, the Smart run having finished a job at another
\* hour than the Baseline run
C13_Witness ==
    /\ pc = "done"
    /\ Len(returned) = 2
    /\ \E i \in Jobs :
          /\ returned[1].timeline[i].status = "DONE"
          /\ returned[2].timeline[i].status = "DONE"
          /\ returned[1].timeline[i].start # returned[2].timeline[i].start

\* the steps a run makes: one per hour value start, start + dt, ... below the end
StepsOfRun ==
    ((SIMULATION_END_HOUR - SIMULATION_START_HOUR) * 60 + TIME_STEP_MINUTES - 1)
        \div TIME_STEP_MINUTES

\* C14: the run makes one step for each hour value start, start + dt, ...
\* strictly below the end hour and none at or beyond it (144 in all); every
\* step appends one entry to each of the six log series, so the series have
\* equal length at all times, and logs.time holds the hours of the steps in
\* increasing order from the start hour.
C14_OneLogEntryPerStep ==
    InRun =>
        LET n == Len(logs.time) IN
        /\ Len(logs.solar) = n /\ Len(logs.grid) = n /\ Len(logs.temp) = n
        /\ Len(logs.cooling) = n /\ Len(logs.cost) = n
        /\ currentHour = SIMULATION_START_HOUR * 60 + n * TIME_STEP_MINUTES
        /\ \A k \in 1..n :
              /\ logs.time[k] = SIMULATION_START_HOUR * 60 + (k - 1) * TIME_STEP_MINUTES
              /\ logs.time[k] < SIMULATION_END_HOUR * 60
        /\ \A k \in 1..(n - 1) : logs.time[k] < logs.time[k + 1]
        /\ n <= StepsOfRun
        /\ pc = "done" => n = StepsOfRun /\ n = 144 /\ returned[Len(returned)].logs = logs

\* a run that drew from the grid has ended with its last step logged
C14_Witness ==
    /\ pc = "done"
    /\ Len(logs.cost) = StepsOfRun
    /\ logs.time[StepsOfRun] = SIMULATION_END_HOUR * 60 - TIME_STEP_MINUTES
    /\ logs.cost[StepsOfRun] > 0
    /\ logs.time[1] = SIMULATION_START_HOUR * 60

\* a schedule call of the scheduler harness has been made
Called == pc = "sched" /\ lastCall.op = "schedule"
SmartCalled == Called /\ lastCall.smart
\* the jobs before the call, the order they were evaluated in, the ones returned
Before == lastCall.before
Order == lastCall.sorted
Admitted == {lastCall.result[k] : k \in 1..Len(lastCall.result)}
\* the thermal and the solar rule let the job through
PassesRules(j) ==
    /\ ~(currentTemp > THERMAL_THRESHOLD * 1000 /\ j.priority = "low")
    /\ ~(j.priority = "medium" /\ SchedSolarAvailable < 1 /\ j.flexible)
\* the power of the jobs admitted ahead of position k of the order
UsedBefore(k) == SumPower(Before, {Order[m] : m \in 1..(k - 1)} \cap Admitted)

\* C15: in a Smart schedule call a job is admitted exactly when it passes
\* the thermal and solar rules and fits on top of the jobs admitted ahead of
\* it in that call, wherever in the order a job was refused for capacity;
\* a refused job is left WAITING as it was, and every WAITING job is
\* evaluated in the next call.
C15_OverflowDoesNotStopEvaluation ==
    /\ [](SmartCalled =>
            \A k \in 1..Len(Order) :
                LET x == Order[k] IN
                /\ x \in Admitted <=>
                      /\ PassesRules(Before[x])
                      /\ UsedBefore(k) + Before[x].powerKw <= MAX_DATA_HUB_POWER
                /\ x \notin Admitted => jobs[x] = Before[x] /\ jobs[x].status = "WAITING"
                /\ x \in Admitted => jobs[x].status = "RUNNING")
    /\ [][pc = "sched" /\ lastCall'.op = "schedule" /\ lastCall'.smart =>
            \A x \in Jobs : jobs[x].status = "WAITING" =>
                \E k \in 1..Len(lastCall'.sorted) : lastCall'.sorted[k] = x]_vars

\* a Smart call refused a job for capacity alone and admitted a later one
C15_Witness ==
    /\ SmartCalled
    /\ \E k, m \in 1..Len(Order) :
          /\ k < m
          /\ Order[k] \notin Admitted
          /\ PassesRules(Before[Order[k]])
          /\ Before[Order[k]].powerKw <= MAX_DATA_HUB_POWER
          /\ Order[m] \in Admitted

\* rank of a job's priority class: critical, high, medium, low
ClassRank(j) ==
    CASE j.priority = "critical" -> 1
      [] j.priority = "high" -> 2
      [] j.priority = "medium" -> 3
      [] j.priority = "low" -> 4

\* C18: a Smart schedule call evaluates the WAITING jobs in the class order
\* critical, high, medium, low, so the capacity used up when a job is
\* evaluated was given to jobs of its own or a higher class only.
C18_EvaluatedInClassOrder ==
    SmartCalled =>
        /\ \A i, k \in 1..Len(Order) :
              i < k => ClassRank(Before[Order[i]]) <= ClassRank(Before[Order[k]])
        /\ \A k \in 1..Len(Order) : \A x \in Admitted :
              (\E m \in 1..(k - 1) : Order[m] = x)
                  => ClassRank(Before[x]) <= ClassRank(Before[Order[k]])

\* a Smart call evaluated jobs of three classes and refused one for capacity
\* that a job of a higher class had taken
C18_Witness ==
    /\ SmartCalled
    /\ Cardinality({ClassRank(Before[Order[k]]) : k \in 1..Len(Order)}) >= 3
    /\ \E m, k \in 1..Len(Order) :
          /\ m < k
          /\ Order[m] \in Admitted
          /\ ClassRank(Before[Order[m]]) < ClassRank(Before[Order[k]])
          /\ Order[k] \notin Admitted
          /\ PassesRules(Before[Order[k]])
          /\ Before[Order[k]].powerKw <= MAX_DATA_HUB_POWER

\* urgencyScore(a) - urgencyScore(b), times the product of the denominators
UrgencyGap(a, b, hour) ==
    urgencyScore(a, hour)[1] * urgencyScore(b, hour)[2]
        - urgencyScore(b, hour)[1] * urgencyScore(a, hour)[2]

\* the urgency scores of a and b differ by more than 0.1
UrgencyApart(a, b, hour) ==
    10 * Abs(UrgencyGap(a, b, hour))
        > urgencyScore(a, hour)[2] * urgencyScore(b, hour)[2]

\* a before b is what the pairwise rule asks for
PairInOrder(a, b, hour) ==
    IF UrgencyApart(a, b, hour) THEN UrgencyGap(a, b, hour) > 0
    ELSE a.powerKw <= b.powerKw

\* the jobs evaluated in the call that are of the class of the job at x
ClassOf(x) == {Order[m] : m \in {n \in 1..Len(Order) :
                               ClassRank(Before[Order[n]]) = ClassRank(Before[x])}}

\* C19 as stated: in the evaluation order of a Smart call every pair of
\* jobs of one class is ordered by the rule: the more urgent first when the
\* scores are more than 0.1 apart, else the smaller power first.
C19_PairwiseOrderAsStated ==
    SmartCalled =>
        \A i, k \in 1..Len(Order) :
            i < k /\ Order[k] \in ClassOf(Order[i])
                => PairInOrder(Before[Order[i]], Before[Order[k]], lastCall.hour)

\* C19: every pair of jobs of one class is ordered by the rule whenever the
\* rule is an ordering of the jobs of that class (it always is for two).
C19_PairwiseOrderWhenTransitive ==
    SmartCalled =>
        \A i, k \in 1..Len(Order) :
            /\ i < k
            /\ Order[k] \in ClassOf(Order[i])
            /\ ConsistentAmong(Before, ClassOf(Order[i]), lastCall.hour)
            => PairInOrder(Before[Order[i]], Before[Order[k]], lastCall.hour)

\* a Smart call ordered three jobs of one class, one pair by urgency and
\* another by power
C19_Witness ==
    /\ SmartCalled
    /\ \E i, k, m \in 1..Len(Order) :
          /\ i < k /\ k < m
          /\ ClassOf(Order[i]) = {Order[i], Order[k], Order[m]}
          /\ ConsistentAmong(Before, ClassOf(Order[i]), lastCall.hour)
          /\ UrgencyApart(Before[Order[i]], Before[Order[k]], lastCall.hour)
          /\ ~UrgencyApart(Before[Order[k]], Before[Order[m]], lastCall.hour)
          /\ Before[Order[k]].powerKw < Before[Order[m]].powerKw

\* C20: urgencyScore gives a job whose deadline has passed the sentinel 999,
\* its score is never negative, and a job whose deadline has not passed never
\* scores more than the sentinel: for the jobs of a scheduler at the hours
\* it may be called at, and for the WAITING jobs of a run at the hour of
\* the step to come.
C20_SentinelIsMaximum ==
    LET ok(j, hour) ==
            LET u == urgencyScore(j, hour) IN
            /\ u[2] > 0 /\ u[1] >= 0
            /\ j.deadline # NULL
               /\ (j.deadline[1] - hour < 0
                   \/ (j.deadline[1] - hour = 0 /\ ~DoubleBelowHour(hour)))
               => u = <<999, 1>>
            /\ u[1] <= 999 * u[2]
    IN /\ pc = "sched" => \A i \in Jobs : \A hour \in SchedHours : ok(jobs[i], hour)
       /\ pc = "loop" => \A i \in Jobs : jobs[i].status = "WAITING"
                                             => ok(jobs[i], currentHour)

\* C16: at every step the environment value comes from the series entry
\* keyed by the current hour when there is one; otherwise from the entry at
\* index position floor(currentHour) when the series has that index; and
\* from the physics model otherwise.
C16_KeyThenIndexThenPhysics ==
    pc = "lookup" /\ lastCall.op = "environment" =>
        LET hour == lastCall.hour
            keyed == {i \in DOMAIN solarData : solarData[i].timestamp = Some(hour)}
        IN IF keyed # {}
           THEN /\ lastCall.result.source = "data"
                /\ \E i \in keyed : lastCall.result.value = solarData[i].value
           ELSE IF hour \div 60 \in DOMAIN solarData
           THEN lastCall.result = [source |-> "data",
                                   value |-> solarData[hour \div 60].value]
           ELSE lastCall.result.source = "physics"

\* the job evaluated at position k of the order fits the capacity left
FitsAtTurn(k) ==
    UsedBefore(k) + Before[Order[k]].powerKw <= MAX_DATA_HUB_POWER

\* C21: in a Smart schedule call with less than 1 kW of solar power only the
\* flexible medium jobs are passed over for it: an inflexible medium job is
\* admitted whenever it fits the capacity left at its turn, and so is a
\* critical or a high job, and a low job unless the thermal rule holds it.
C21_SolarSkipOnlyFlexibleMedium ==
    SmartCalled /\ SchedSolarAvailable < 1 =>
        \A k \in 1..Len(Order) :
            LET x == Order[k]
                j == Before[x]
            IN /\ j.priority = "medium" /\ j.flexible => x \notin Admitted
               /\ j.priority = "medium" /\ ~j.flexible /\ FitsAtTurn(k)
                     => x \in Admitted /\ jobs[x].status = "RUNNING"
               /\ j.priority \in {"critical", "high"} /\ FitsAtTurn(k)
                     => x \in Admitted
               /\ j.priority = "low" /\ FitsAtTurn(k)
                  /\ ~(currentTemp > THERMAL_THRESHOLD * 1000)
                     => x \in Admitted

\* a Smart call without solar power passed over a flexible medium job and
\* admitted an inflexible medium job and a low job
C21_Witness ==
    /\ SmartCalled /\ SchedSolarAvailable < 1
    /\ \E x, y, z \in Admitted \cup {Order[k] : k \in 1..Len(Order)} :
          /\ Before[x].priority = "medium" /\ Before[x].flexible
          /\ x \notin Admitted /\ jobs[x].status = "WAITING"
          /\ Before[y].priority = "medium" /\ ~Before[y].flexible
          /\ y \in Admitted
          /\ Before[z].priority = "low" /\ z \in Admitted

\* C22: once admitted a job is advanced by one time step in every step that
\* follows until it is DONE, under either policy and whatever the
\* temperature, the solar power and the load: n minutes of steps after its
\* admission it has max(0, duration - n) minutes remaining, it is in the
\* running set as long as it is RUNNING, and it is DONE exactly from the
\* step ceil(duration / TIME_STEP_MINUTES) steps after its admission on.
C22_RunsToCompletion ==
    Stepped =>
        \A i \in Started :
            LET n == LastHour - jobs[i].startHour[1]
                D == jobs[i].duration
            IN /\ n >= 0
               /\ jobs[i].remaining = Max(0, D - n)
               /\ jobs[i].status = IF n >= RunLength(D) THEN "DONE" ELSE "RUNNING"
               /\ jobs[i].status = "RUNNING" <=> i \in currentlyRunning

\* a job whose duration is no whole number of steps became DONE in this
\* step, ceil(duration / TIME_STEP_MINUTES) steps after its admission,
\* beside a running job with which it overloads the facility
C22_Witness ==
    /\ Stepped
    /\ \E i, k \in Started :
          /\ i # k
          /\ jobs[i].duration % TIME_STEP_MINUTES # 0
          /\ jobs[i].status = "DONE"
          /\ LastHour = jobs[i].startHour[1] + RunLength(jobs[i].duration)
          /\ jobs[k].status = "RUNNING"
          /\ jobs[i].powerKw + jobs[k].powerKw > MAX_DATA_HUB_POWER

\* what the accumulator of the call made last started at
InitialLoad == IF lastCall.smart THEN 0 ELSE BASELINE_BACKGROUND_LOAD

\* C23: in a schedule call of either scheduler the accumulator's initial
\* value (0 for Smart, BASELINE_BACKGROUND_LOAD for Baseline) plus the
\* powerKw of the jobs returned is within MAX_DATA_HUB_POWER, no job is
\* returned twice, and every job returned was WAITING before the call: a job
\* that was RUNNING or DONE is not returned and is left as it was.
C23_ReturnedFitAndWereWaiting ==
    Called =>
        /\ InitialLoad + SumPower(Before, Admitted) <= MAX_DATA_HUB_POWER
        /\ Len(lastCall.result) = Cardinality(Admitted)
        /\ \A x \in Admitted : Before[x].status = "WAITING"
        /\ \A x \in 1..Len(Before) :
              Before[x].status # "WAITING" => x \notin Admitted /\ jobs[x] = Before[x]

\* a call on a scheduler that held a DONE job, a RUNNING job and a WAITING
\* job returned the WAITING one
C23_Witness ==
    /\ Called
    /\ \E x, y \in 1..Len(Before) :
          Before[x].status = "DONE" /\ Before[y].status = "RUNNING"
    /\ Admitted # {}

\* C24: after every step of a run the engine's currentlyRunning set is the
\* set of the jobs whose status is RUNNING, so it holds no WAITING and no
\* DONE job; and a step advances the jobs that were in the set and no
\* other: a job that was WAITING before the step has all its minutes left
\* after it.
C24_RunningSetIsRunningJobs ==
    /\ [](InRun => currentlyRunning = RunningJobs)
    /\ [][InRun =>
            \A i \in Jobs :
                /\ jobs[i].status = "WAITING" => jobs'[i].remaining = jobs[i].duration
                /\ jobs'[i].remaining # jobs[i].remaining => i \in currentlyRunning]_vars

\* in the middle of a run one job is DONE and out of the set while another
\* is RUNNING and in it
C24_Witness ==
    /\ pc = "loop" /\ Stepped
    /\ \E i, k \in Jobs :
          /\ jobs[i].status = "DONE" /\ i \notin currentlyRunning
          /\ jobs[k].status = "RUNNING" /\ k \in currentlyRunning

\* C25: in every state of a run a job's startHour is null exactly when the
\* job is WAITING; a step that admits a job sets its startHour to the hour
\* of that step; and a startHour that is set is never changed.
C25_StartHourSetOnce ==
    /\ [](InRun => \A i \in Jobs :
                      jobs[i].startHour = NULL <=> jobs[i].status = "WAITING")
    /\ [][InRun =>
            \A i \in Jobs :
                /\ jobs[i].startHour # NULL => jobs'[i].startHour = jobs[i].startHour
                /\ jobs[i].startHour = NULL /\ jobs'[i].startHour # NULL
                      => /\ jobs'[i].startHour = Some(currentHour)
                         /\ jobs'[i].status = "RUNNING"]_vars

\* a run has ended with one job started at the first step and DONE, and
\* another started at a later step
C25_Witness ==
    /\ pc = "done"
    /\ \E i, k \in Jobs :
          /\ jobs[i].startHour = Some(SIMULATION_START_HOUR * 60)
          /\ jobs[i].status = "DONE"
          /\ jobs[k].startHour # NULL
          /\ jobs[k].startHour[1] > SIMULATION_START_HOUR * 60

\* what a job keeps of the appliance it was built from
Built(j) == [name |-> j.name, powerKw |-> j.powerKw, duration |-> j.duration,
             priority |-> j.priority, deadline |-> j.deadline,
             flexible |-> j.flexible]

\* C26: under both policies the scheduler's job collection keeps its
\* submission order through every schedule call: at every state of a run
\* the job at position i is the one built from appliance i, no step adds or
\* removes a job, and the returned timeline has one entry per appliance, in
\* catalog order.
C26_JobsKeepSubmissionOrder ==
    /\ [](InRun =>
            /\ Len(jobs) = Len(appliances)
            /\ \A i \in Jobs : Built(jobs[i]) = Built(SetupJobs(appliances)[i])
            /\ pc = "done" =>
                  /\ DOMAIN Timeline = 1..Len(appliances)
                  /\ \A i \in Jobs :
                        /\ Timeline[i].name = appliances[i].name
                        /\ Timeline[i].duration = DurationMinutes(appliances[i])
                        /\ Timeline[i].priority = normalizePriority(appliances[i].priority)
                        /\ Timeline[i].start = jobs[i].startHour)
    /\ [][InRun => Len(jobs') = Len(jobs)]_vars

\* a Smart run has ended whose second job is of a higher class than its
\* first, was evaluated before it at the first step, and was started no
\* later
C26_Witness ==
    /\ pc = "done" /\ useSmart
    /\ Len(jobs) = 2
    /\ ClassRank(jobs[2]) < ClassRank(jobs[1])
    /\ jobs[1].name # jobs[2].name
    /\ jobs[2].startHour = Some(SIMULATION_START_HOUR * 60)
    /\ jobs[1].startHour # NULL
    /\ Timeline[1].name = appliances[1].name /\ Timeline[2].name = appliances[2].name

\* the figures of the step made last: the load is that of the running set,
\* which no later part of the step changes; the logs hold the solar power
\* used (kW), the total grid draw (W) and the cooling power (W)
LastLoad == SumPower(jobs, currentlyRunning)
LastSolarAvailable == Lookup(solarData, LastHour)[1]
LastSolarUsed == logs.solar[Len(logs.solar)]
LastGridDraw == logs.grid[Len(logs.grid)]
LastCooling == logs.cooling[Len(logs.cooling)]
\* gridUsed, in W: the grid draw that is not the cooling's
LastGridUsed == LastGridDraw - LastCooling

RECURSIVE SumSeq(_, _)
SumSeq(q, n) == IF n = 0 THEN 0 ELSE q[n] + SumSeq(q, n - 1)

\* the steps' figures added up from the logs: total grid draw, cooling, and
\* the compute load's draw from the grid (all W) and from solar (kW)
LoggedGrid == SumSeq(logs.grid, Len(logs.grid))
LoggedCooling == SumSeq(logs.cooling, Len(logs.cooling))
LoggedSolar == SumSeq(logs.solar, Len(logs.solar))

AdmissibleCritical ==
    {i \in Jobs : jobs[i].priority = "critical"
                  /\ jobs[i].powerKw <= MAX_DATA_HUB_POWER}

StepsMade == (currentHour - SIMULATION_START_HOUR * 60) \div TIME_STEP_MINUTES

\* C29: in a Smart run every step that finds a critical job WAITING that
\* fits the facility alone admits at least one such job, so each of them is
\* RUNNING or DONE once as many steps have been made as there are critical
\* jobs; and a job of more than MAX_DATA_HUB_POWER, of any priority, is
\* WAITING throughout.
C29_CriticalNeverStarves ==
    /\ [][InRun /\ useSmart /\ currentHour' # currentHour =>
            ((\E i \in AdmissibleCritical : jobs[i].status = "WAITING")
                => \E i \in AdmissibleCritical :
                      jobs[i].status = "WAITING" /\ jobs'[i].status = "RUNNING")]_vars
    /\ [](InRun /\ useSmart =>
            /\ \A i \in AdmissibleCritical :
                  StepsMade >= Cardinality({k \in Jobs : jobs[k].priority = "critical"})
                      => jobs[i].status # "WAITING"
            /\ \A i \in Jobs :
                  jobs[i].powerKw > MAX_DATA_HUB_POWER
                      => jobs[i].status = "WAITING" /\ jobs[i].startHour = NULL)

\* in a Smart run two critical jobs that do not fit the facility together
\* were admitted at the first and at the second step
C29_Witness ==
    /\ InRun /\ useSmart
    /\ \E i, k \in AdmissibleCritical :
          /\ jobs[i].powerKw + jobs[k].powerKw > MAX_DATA_HUB_POWER
          /\ jobs[i].startHour = Some(SIMULATION_START_HOUR * 60)
          /\ jobs[k].startHour = Some(SIMULATION_START_HOUR * 60 + TIME_STEP_MINUTES)

\* the jobs that do not fit on top of the background load
TooBigForBaseline ==
    {i \in Jobs :
        jobs[i].powerKw > MAX_DATA_HUB_POWER - BASELINE_BACKGROUND_LOAD}

\* C30: in a Baseline run a job of more than MAX_DATA_HUB_POWER -
\* BASELINE_BACKGROUND_LOAD is WAITING throughout, and so is every job
\* submitted after it; a job submitted before the first such job, at
\* position i, is admitted within i steps, so all of them are started when
\* the run ends if it has as many steps as jobs.
C30_BaselineBlockedForGood ==
    InRun /\ ~useSmart =>
        /\ \A b \in TooBigForBaseline : \A k \in Jobs :
              k >= b => jobs[k].status = "WAITING" /\ jobs[k].startHour = NULL
        /\ \A i \in Jobs :
              (\A b \in TooBigForBaseline : i < b) /\ StepsMade >= i
                  => /\ jobs[i].status # "WAITING"
                     /\ jobs[i].startHour[1] <
                            SIMULATION_START_HOUR * 60 + i * TIME_STEP_MINUTES

\* a Baseline run has ended with its first job, of more than 7 kW, WAITING
\* and a job that fits alone WAITING behind it
C30_Witness ==
    /\ pc = "done" /\ ~useSmart
    /\ StepsMade = StepsOfRun
    /\ 1 \in TooBigForBaseline
    /\ \E k \in Jobs \ TooBigForBaseline :
          jobs[k].status = "WAITING" /\ jobs[k].powerKw <= MAX_DATA_HUB_POWER
    /\ returned[Len(returned)].timeline[1].status = "WAITING"

====
